---- MODULE Spec2Model ----
(***************************************************************************)
(* The change-detection listener of pitchbook: PitchBookListener           *)
(* (src/src/pitchbook/listener.py) polling the provider client             *)
(* (src/src/pitchbook/client.py) and diffing against the SQLite store      *)
(* (src/src/pitchbook/store.py).                                           *)
(*                                                                         *)
(* The store tables are the variables watched, companies and deals.  The   *)
(* change_events table is only ever appended to by the listener and never  *)
(* read by it, so the model keeps the rows appended by the check that ran  *)
(* last (log) instead of the whole table; calls keeps the observer         *)
(* invocations of that same check.  chk records what that check read       *)
(* (the fetch outcomes and the snapshot it found), so that the properties  *)
(* can relate the rows written to the inputs of the check.                 *)
(*                                                                         *)
(* A check (_check_company) is one step: its two awaits are the provider   *)
(* calls, whose outcomes are the inputs of the step.  A store call that    *)
(* raises is an input too: storeFault is the position, among the store     *)
(* calls of the check, of the call that raises (0: none does).             *)
(***************************************************************************)
EXTENDS Integers, Sequences, FiniteSets, TLC

VARIABLES
  watched,     \* store: the watched_companies table, as the set of its keys
  companies,   \* store: the companies table, pitchbook_id -> row
  deals,       \* store: the deals table, pitchbook_id -> row
  log,         \* store: rows appended to change_events by the latest check
  callbacks,   \* listener._callbacks
  running,     \* listener._running
  pc,          \* where run() is: "init", "cycle", "sleep", "done", "failed"
  todo,        \* the targets of this cycle's `watched` list not yet checked
  calls,       \* the callback invocations made by the latest check, in order
  chk,         \* what the latest check read and how it ended
  prev,        \* per company, the outcome of its previous check
  cyc,         \* the `watched` list of the latest cycle, and the targets of
               \* it whose check raised
  change_events, \* store: the change_events table as get_recent_changes reads
               \* it, each row with its key and its detected_at
  recent       \* the latest call of get_recent_changes: its limit, the table
               \* it read and the rows it returned

vars ==
  <<watched, companies, deals, log, callbacks, running, pc, todo, calls, chk,
    prev, cyc, change_events, recent>>

----------------------------------------------------------------------------
(* Bounds and value domains *)

MaxCallbacks == 2     \* registered observers
MaxApiDeals == 2      \* length of a fetched deal list
MaxStoreCalls == 4    \* store calls of one check among which one may raise
MaxEvents == 3        \* rows of the change_events table get_recent_changes reads

None == "None"        \* Python None, SQL NULL

Ids == {"C-1", "C-2"}
DealIds == {"D-1", "D-2", "D-3"}
Observers == {"cb1", "cb2"}

Statuses == {"active", "public"}
Amounts == {"5000000", "8000000"}
Counts == {"10", "12"}
Dates == {"2024-01-15", "2024-06-30"}

\* the values of detected_at, in their order
Times == 1..MaxEvents

\* the values of the limit of get_recent_changes
Limits == 0..(MaxEvents + 1)

Opt(S) == S \cup {None}

\* models.py Company: the key and the fields the listener diffs
Company(id) ==
  [pitchbook_id : {id}, status : Statuses, total_raised_usd : Opt(Amounts),
   employee_count : Opt(Counts), last_financing_date : Opt(Dates)]

\* get_company() returning None
NoCompany ==
  [pitchbook_id |-> None, status |-> None, total_raised_usd |-> None,
   employee_count |-> None, last_financing_date |-> None]

\* models.py Deal: the key and the parent company
Deal(id, company_id) == [pitchbook_id |-> id, company_id |-> company_id]

\* models.py ChangeEvent; old and new carry the values of `details`
ChangeEvent(entity_type, entity_id, change_type, old, new) ==
  [entity_type |-> entity_type, entity_id |-> entity_id,
   change_type |-> change_type, old |-> old, new |-> new]

FieldDiffTypes ==
  {"status_change", "funding_update", "employee_count_change", "new_financing"}

RECURSIVE SeqsUpTo(_, _)
SeqsUpTo(S, n) ==
  IF n = 0 THEN {<<>>}
  ELSE LET shorter == SeqsUpTo(S, n - 1)
       IN shorter \cup {Append(s, x) : s \in shorter, x \in S}

Range(s) == {s[i] : i \in 1..Len(s)}

NoRepeat(s) == Cardinality(Range(s)) = Len(s)

SelectType(s, t) == SelectSeq(s, LAMBDA e : e.change_type = t)

----------------------------------------------------------------------------
(* The provider client *)

\* client.get_company: raises, or returns the Company parsed from the response
CompanyOutcomes(id, states) ==
  {[raises |-> TRUE, company |-> NoCompany]}
    \cup {[raises |-> FALSE, company |-> s] : s \in states}

\* client.get_company_deals: raises, or returns the parsed list; _parse_deal
\* gives every deal the company_id of the request
DealOutcomes(company_id, dealIds) ==
  {[raises |-> TRUE, deals |-> <<>>]}
    \cup {[raises |-> FALSE, deals |-> [i \in 1..Len(s) |-> Deal(s[i], company_id)]] :
            s \in {q \in SeqsUpTo(dealIds, MaxApiDeals) : NoRepeat(q)}}

\* client.get_company_deals in cookie mode: always the empty list
NoDeals(company_id) == {[raises |-> FALSE, deals |-> <<>>]}

----------------------------------------------------------------------------
(* The store.  m is the machine state a check threads through its calls:   *)
(* the tables, the store calls made so far (ops) and whether an exception  *)
(* is propagating (exc); every call is skipped while one is.               *)

\* python `v or d`
Or(v, d) == IF v = None \/ v = "" THEN d ELSE v

\* each store call opens a session and commits; the call numbered `fault` raises
StoreCall(m, fault) ==
  IF m.exc THEN m
  ELSE [m EXCEPT !.ops = @ + 1, !.exc = (m.ops + 1 = fault)]

\* a store whose upsert_company never adds the missing row
upsert_company_update_only(m, company, fault) ==
  LET m1 == StoreCall(m, fault)
      id == company.pitchbook_id
  IN IF m1.exc \/ id \notin DOMAIN m.companies THEN m1
     ELSE [m1 EXCEPT !.companies[id] = company]

\* a store whose upsert_company never touches a row it finds
upsert_company_insert_only(m, company, fault) ==
  LET m1 == StoreCall(m, fault)
      id == company.pitchbook_id
  IN IF m1.exc \/ id \in DOMAIN m.companies THEN m1
     ELSE [m1 EXCEPT !.companies = [i \in DOMAIN @ \cup {id} |-> IF i = id THEN company ELSE @[i]]]

\* a row is written with the values of model_dump() and read back into a
\* Company: a status is stored as its text and a date as its ISO text, which
\* pydantic parses back to the same member and the same date, so the model
\* names a status and a date by that text
upsert_company(m, company, fault) ==
  LET m1 == StoreCall(m, fault)
      id == company.pitchbook_id
      row == IF id \in DOMAIN m.companies
               THEN [k \in DOMAIN m.companies[id] |->
                       IF k = "pitchbook_id" THEN m.companies[id][k] ELSE company[k]]
               ELSE company
  IN IF m1.exc THEN m1
     ELSE [m1 EXCEPT !.companies = [i \in DOMAIN @ \cup {id} |-> IF i = id THEN row ELSE @[i]]]

\* the value get_company returns (the session call is counted by the caller)
get_company(m, pitchbook_id) ==
  IF pitchbook_id \notin DOMAIN m.companies THEN NoCompany
  ELSE LET row == m.companies[pitchbook_id]
       IN [pitchbook_id |-> row.pitchbook_id,
           status |-> Or(row.status, "active"),
           total_raised_usd |-> row.total_raised_usd,
           employee_count |-> row.employee_count,
           last_financing_date |-> row.last_financing_date]

upsert_deal(m, deal, fault) ==
  LET m1 == StoreCall(m, fault)
      id == deal.pitchbook_id
      row == IF id \in DOMAIN m.deals
               THEN [k \in DOMAIN m.deals[id] |->
                       IF k = "pitchbook_id" THEN m.deals[id][k] ELSE deal[k]]
               ELSE deal
  IN IF m1.exc THEN m1
     ELSE [m1 EXCEPT !.deals = [i \in DOMAIN @ \cup {id} |-> IF i = id THEN row ELSE @[i]]]

\* the ids of get_deals_for_company(company_id)
get_deals_for_company(m, company_id) ==
  {d \in DOMAIN m.deals : m.deals[d].company_id = company_id}

record_change(m, event, fault) ==
  LET m1 == StoreCall(m, fault)
  IN IF m1.exc THEN m1 ELSE [m1 EXCEPT !.log = Append(@, event)]

\* a query without its ORDER BY: the rows in the order of their insertion
InsertionOrder(table) == {table}

\* `.order_by(ChangeEventRow.detected_at.desc())`: the orders the query may
\* return the rows in; rows of equal detected_at come in any order
OrderByDetectedAtDesc(table) ==
  {rows \in {[i \in 1..Len(table) |-> table[p[i]]] : p \in Permutations(1..Len(table))} :
     \A i \in 1..(Len(rows) - 1) : rows[i].detected_at >= rows[i + 1].detected_at}

\* `.limit(limit)`
Limit(rows, limit) ==
  SubSeq(rows, 1, IF limit < Len(rows) THEN limit ELSE Len(rows))

----------------------------------------------------------------------------
(* The listener *)

\* a loop over reversed(self._callbacks)
RECURSIVE Notify_newest_first(_, _, _, _)
Notify_newest_first(cbs, event, raisers, done) ==
  IF cbs = <<>> THEN done
  ELSE Notify_newest_first(SubSeq(cbs, 1, Len(cbs) - 1), event, raisers,
                           Append(done, [cb |-> cbs[Len(cbs)], event |-> event]))

\* a loop without the try: the first callback that raises ends it
RECURSIVE Notify_stop_at_raise(_, _, _, _)
Notify_stop_at_raise(cbs, event, raisers, done) ==
  IF cbs = <<>> THEN done
  ELSE LET invoked == Append(done, [cb |-> Head(cbs), event |-> event])
       IN IF Head(cbs) \in raisers
            THEN invoked
            ELSE Notify_stop_at_raise(Tail(cbs), event, raisers, invoked)

\* the `for cb in self._callbacks` loop of _emit: an exception of a callback
\* is caught and logged, and the loop goes on
RECURSIVE Notify(_, _, _, _)
Notify(cbs, event, raisers, done) ==
  IF cbs = <<>> THEN done
  ELSE LET invoked == Append(done, [cb |-> Head(cbs), event |-> event])
       IN IF Head(cbs) \in raisers
            THEN Notify(Tail(cbs), event, raisers, invoked)
            ELSE Notify(Tail(cbs), event, raisers, invoked)

\* an _emit that invokes the callbacks before it appends the event
_emit_notify_first(m, event, cbs, raisers, fault) ==
  IF m.exc THEN m
  ELSE record_change([m EXCEPT !.calls = Notify(cbs, event, raisers, @)], event, fault)

_emit(m, event, cbs, raisers, fault) ==
  LET m1 == record_change(m, event, fault)
  IN IF m1.exc THEN m1
     ELSE [m1 EXCEPT !.calls = Notify(cbs, event, raisers, @)]

\* a status block that reports the two statuses the wrong way round
status_change_swapped(m, old, new, cbs, raisers, fault) ==
  IF old.status # new.status
    THEN _emit(m, ChangeEvent("company", new.pitchbook_id, "status_change",
                              new.status, old.status), cbs, raisers, fault)
    ELSE m

\* `if old.status != new.status`
status_change(m, old, new, cbs, raisers, fault) ==
  IF old.status # new.status
    THEN _emit(m, ChangeEvent("company", new.pitchbook_id, "status_change",
                              old.status, new.status), cbs, raisers, fault)
    ELSE m

\* a funding block without the two `is not None` tests
funding_update_any_difference(m, old, new, cbs, raisers, fault) ==
  IF new.total_raised_usd # old.total_raised_usd
    THEN _emit(m, ChangeEvent("company", new.pitchbook_id, "funding_update",
                              old.total_raised_usd, new.total_raised_usd),
               cbs, raisers, fault)
    ELSE m

\* `if new.total_raised_usd is not None and old.total_raised_usd is not None
\*  and new.total_raised_usd != old.total_raised_usd`
funding_update(m, old, new, cbs, raisers, fault) ==
  IF /\ new.total_raised_usd # None
     /\ old.total_raised_usd # None
     /\ new.total_raised_usd # old.total_raised_usd
    THEN _emit(m, ChangeEvent("company", new.pitchbook_id, "funding_update",
                              old.total_raised_usd, new.total_raised_usd),
               cbs, raisers, fault)
    ELSE m

\* `if new.employee_count is not None and old.employee_count is not None
\*  and new.employee_count != old.employee_count`
employee_count_change(m, old, new, cbs, raisers, fault) ==
  IF /\ new.employee_count # None
     /\ old.employee_count # None
     /\ new.employee_count # old.employee_count
    THEN _emit(m, ChangeEvent("company", new.pitchbook_id, "employee_count_change",
                              old.employee_count, new.employee_count),
               cbs, raisers, fault)
    ELSE m

\* a financing block that asks for a date on both sides
new_financing_both_dated(m, old, new, cbs, raisers, fault) ==
  IF /\ new.last_financing_date # None
     /\ old.last_financing_date # None
     /\ new.last_financing_date # old.last_financing_date
    THEN _emit(m, ChangeEvent("company", new.pitchbook_id, "new_financing",
                              None, new.last_financing_date), cbs, raisers, fault)
    ELSE m

\* `if new.last_financing_date and new.last_financing_date !=
\*  old.last_financing_date`; a date is truthy, None is not
new_financing(m, old, new, cbs, raisers, fault) ==
  IF /\ new.last_financing_date # None
     /\ new.last_financing_date # old.last_financing_date
    THEN _emit(m, ChangeEvent("company", new.pitchbook_id, "new_financing",
                              None, new.last_financing_date), cbs, raisers, fault)
    ELSE m

\* the four blocks in the reverse of the order of the code
_detect_company_changes_reversed(m, old, new, cbs, raisers, fault) ==
  LET m1 == new_financing(m, old, new, cbs, raisers, fault)
      m2 == IF m1.exc THEN m1 ELSE employee_count_change(m1, old, new, cbs, raisers, fault)
      m3 == IF m2.exc THEN m2 ELSE funding_update(m2, old, new, cbs, raisers, fault)
  IN IF m3.exc THEN m3 ELSE status_change(m3, old, new, cbs, raisers, fault)

\* the four blocks in the order of the code; an exception of one leaves the
\* function, so the later blocks are skipped (every call is, while m.exc)
_detect_company_changes(m, old, new, cbs, raisers, fault) ==
  LET m1 == status_change(m, old, new, cbs, raisers, fault)
      m2 == IF m1.exc THEN m1 ELSE funding_update(m1, old, new, cbs, raisers, fault)
      m3 == IF m2.exc THEN m2 ELSE employee_count_change(m2, old, new, cbs, raisers, fault)
  IN IF m3.exc THEN m3 ELSE new_financing(m3, old, new, cbs, raisers, fault)

\* a loop that leaves at the first new deal: one event per cycle
RECURSIVE DealLoop_first_only(_, _, _, _, _, _)
DealLoop_first_only(m, api_deals, stored_ids, cbs, raisers, fault) ==
  IF api_deals = <<>> THEN m
  ELSE IF Head(api_deals).pitchbook_id \notin stored_ids
         THEN _emit(upsert_deal(m, Head(api_deals), fault),
                    ChangeEvent("deal", Head(api_deals).pitchbook_id, "new_deal", None, None),
                    cbs, raisers, fault)
         ELSE DealLoop_first_only(m, Tail(api_deals), stored_ids, cbs, raisers, fault)

\* the `for deal in api_deals` loop of _check_deals
RECURSIVE DealLoop(_, _, _, _, _, _)
DealLoop(m, api_deals, stored_ids, cbs, raisers, fault) ==
  IF api_deals = <<>> THEN m
  ELSE LET deal == Head(api_deals)
           m1 == IF deal.pitchbook_id \notin stored_ids
                   THEN _emit(upsert_deal(m, deal, fault),
                              ChangeEvent("deal", deal.pitchbook_id, "new_deal", None, None),
                              cbs, raisers, fault)
                   ELSE m
       IN DealLoop(m1, Tail(api_deals), stored_ids, cbs, raisers, fault)

_check_deals(m, company_id, dealsOut, cbs, raisers, fault) ==
  IF m.exc THEN m
  ELSE IF dealsOut.raises THEN [m EXCEPT !.exc = TRUE]
  ELSE LET m1 == StoreCall(m, fault)
       IN DealLoop(m1, dealsOut.deals, get_deals_for_company(m, company_id),
                   cbs, raisers, fault)

\* a check that reports a failed fetch as an event before it raises
_check_company_reports_failure(m, company_id, companyOut, dealsOut, cbs, raisers, fault) ==
  IF companyOut.raises
    THEN [_emit(m, ChangeEvent("company", company_id, "fetch_failed", None, None),
                cbs, raisers, fault) EXCEPT !.exc = TRUE]
  ELSE LET fresh == companyOut.company
           m1 == StoreCall(m, fault)
           stored == get_company(m, company_id)
           m2 == IF stored = NoCompany
                   THEN _emit(upsert_company(m1, fresh, fault),
                              ChangeEvent("company", company_id, "new", None, None),
                              cbs, raisers, fault)
                   ELSE upsert_company(
                          _detect_company_changes(m1, stored, fresh, cbs, raisers, fault),
                          fresh, fault)
       IN _check_deals(m2, company_id, dealsOut, cbs, raisers, fault)

\* a check that writes the snapshot only when the diff emitted an event
_check_company_refresh_on_event(m, company_id, companyOut, dealsOut, cbs, raisers, fault) ==
  IF companyOut.raises THEN [m EXCEPT !.exc = TRUE]
  ELSE LET fresh == companyOut.company
           m1 == StoreCall(m, fault)
           stored == get_company(m, company_id)
           diffed == _detect_company_changes(m1, stored, fresh, cbs, raisers, fault)
           m2 == IF stored = NoCompany
                   THEN _emit(upsert_company(m1, fresh, fault),
                              ChangeEvent("company", company_id, "new", None, None),
                              cbs, raisers, fault)
                   ELSE IF diffed.log = m1.log THEN diffed
                   ELSE upsert_company(diffed, fresh, fault)
       IN _check_deals(m2, company_id, dealsOut, cbs, raisers, fault)

\* a check that fetches the deal list before it writes the snapshot
_check_company_deals_first(m, company_id, companyOut, dealsOut, cbs, raisers, fault) ==
  IF companyOut.raises \/ dealsOut.raises THEN [m EXCEPT !.exc = TRUE]
  ELSE LET fresh == companyOut.company
           m1 == StoreCall(m, fault)
           stored == get_company(m, company_id)
           m2 == IF stored = NoCompany
                   THEN _emit(upsert_company(m1, fresh, fault),
                              ChangeEvent("company", company_id, "new", None, None),
                              cbs, raisers, fault)
                   ELSE upsert_company(
                          _detect_company_changes(m1, stored, fresh, cbs, raisers, fault),
                          fresh, fault)
       IN _check_deals(m2, company_id, dealsOut, cbs, raisers, fault)

_check_company(m, company_id, companyOut, dealsOut, cbs, raisers, fault) ==
  IF companyOut.raises THEN [m EXCEPT !.exc = TRUE]
  ELSE LET fresh == companyOut.company
           m1 == StoreCall(m, fault)
           stored == get_company(m, company_id)
           m2 == IF stored = NoCompany
                   THEN _emit(upsert_company(m1, fresh, fault),
                              ChangeEvent("company", company_id, "new", None, None),
                              cbs, raisers, fault)
                   ELSE upsert_company(
                          _detect_company_changes(m1, stored, fresh, cbs, raisers, fault),
                          fresh, fault)
       IN _check_deals(m2, company_id, dealsOut, cbs, raisers, fault)

\* the machine state a check starts from
Machine ==
  [companies |-> companies, deals |-> deals, log |-> <<>>, calls |-> <<>>,
   ops |-> 0, exc |-> FALSE]

NoPrev == [checked |-> FALSE, raised |-> FALSE, fresh |-> NoCompany, log |-> <<>>]

NoCheck ==
  [id |-> None, fetch_raised |-> FALSE, fresh |-> NoCompany, stored |-> NoCompany,
   deals_raised |-> FALSE, api_deals |-> <<>>, stored_ids |-> {},
   callbacks |-> <<>>, raisers |-> {}, running |-> FALSE, fault |-> 0, raised |-> FALSE, prev |-> NoPrev]

\* no call of get_recent_changes yet
NoQuery == [limit |-> 0, table |-> <<>>, rows |-> <<>>]

----------------------------------------------------------------------------
(* Actions *)

Init ==
  /\ watched = {}
  /\ companies = <<>>
  /\ deals = <<>>
  /\ log = <<>>
  /\ callbacks = <<>>
  /\ running = FALSE
  /\ pc = "init"
  /\ todo = <<>>
  /\ calls = <<>>
  /\ chk = NoCheck
  /\ prev = [id \in Ids |-> NoPrev]
  /\ cyc = [list |-> <<>>, failed |-> {}]
  /\ change_events = <<>>
  /\ recent = NoQuery

\* store.add_watched_company
add_watched_company(pitchbook_id) ==
  /\ watched' = watched \cup {pitchbook_id}
  /\ UNCHANGED <<companies, deals, log, callbacks, running, pc, todo, calls, chk, prev,
                 cyc, change_events, recent>>

\* a removal that empties the registry
remove_watched_company_clear(pitchbook_id) ==
  /\ watched' = {}
  /\ UNCHANGED <<companies, deals, log, callbacks, running, pc, todo, calls, chk, prev,
                 cyc, change_events, recent>>

\* a removal that deletes the stored snapshot of the target with its row
remove_watched_company_purge(pitchbook_id) ==
  /\ watched' = watched \ {pitchbook_id}
  /\ companies' = [id \in DOMAIN companies \ {pitchbook_id} |-> companies[id]]
  /\ UNCHANGED <<deals, log, callbacks, running, pc, todo, calls, chk, prev,
                 cyc, change_events, recent>>

\* a removal that also takes the target out of the cycle in flight
remove_watched_company_dequeue(pitchbook_id) ==
  /\ watched' = watched \ {pitchbook_id}
  /\ todo' = SelectSeq(todo, LAMBDA id : id # pitchbook_id)
  /\ UNCHANGED <<companies, deals, log, callbacks, running, pc, calls, chk, prev,
                 cyc, change_events, recent>>

\* store.remove_watched_company
remove_watched_company(pitchbook_id) ==
  /\ watched' = watched \ {pitchbook_id}
  /\ UNCHANGED <<companies, deals, log, callbacks, running, pc, todo, calls, chk, prev,
                 cyc, change_events, recent>>

\* listener.on_change
on_change(cb) ==
  /\ Len(callbacks) < MaxCallbacks
  /\ callbacks' = Append(callbacks, cb)
  /\ UNCHANGED <<watched, companies, deals, log, running, pc, todo, calls, chk, prev,
                 cyc, change_events, recent>>

\* a stop that abandons the cycle in flight
stop_preemptive ==
  /\ running' = FALSE
  /\ pc' = IF pc = "cycle" THEN "sleep" ELSE pc
  /\ UNCHANGED <<watched, companies, deals, log, callbacks, todo, calls, chk, prev, cyc,
                 change_events, recent>>

\* listener.stop
stop ==
  /\ running' = FALSE
  /\ UNCHANGED <<watched, companies, deals, log, callbacks, pc, todo, calls, chk, prev,
                 cyc, change_events, recent>>

\* the orders list_watched_companies may return the rows in
Orders(S) == {s \in SeqsUpTo(S, Cardinality(S)) : Len(s) = Cardinality(S) /\ NoRepeat(s)}

\* a cycle without the `if not watched: return`
LoopTest_no_empty_return(isRunning, listFault) ==
  IF ~isRunning THEN pc' = "done" /\ UNCHANGED <<todo, cyc>>
  ELSE IF listFault THEN pc' = "failed" /\ UNCHANGED <<todo, cyc>>
  ELSE \E order \in Orders(watched) :
         /\ todo' = order
         /\ cyc' = [list |-> order, failed |-> {}]
         /\ pc' = "cycle"

\* a `while True` loop: the test of _running is gone
LoopTest_forever(isRunning, listFault) ==
  IF listFault THEN pc' = "failed" /\ UNCHANGED <<todo, cyc>>
  ELSE \E order \in Orders(watched) :
         /\ todo' = order
         /\ cyc' = [list |-> order, failed |-> {}]
         /\ pc' = IF order = <<>> THEN "sleep" ELSE "cycle"

\* `while self._running: await self._poll_cycle()` up to the first await of
\* the cycle: the loop test, the read of the watch list, the empty-list return
LoopTest(isRunning, listFault) ==
  IF ~isRunning THEN pc' = "done" /\ UNCHANGED <<todo, cyc>>
  ELSE IF listFault THEN pc' = "failed" /\ UNCHANGED <<todo, cyc>>
  ELSE \E order \in Orders(watched) :
         /\ todo' = order
         /\ cyc' = [list |-> order, failed |-> {}]
         /\ pc' = IF order = <<>> THEN "sleep" ELSE "cycle"

\* a run() that leaves the flag as it finds it
run_keeps_flag(listFault) ==
  /\ pc = "init"
  /\ LoopTest(running, listFault)
  /\ UNCHANGED <<watched, companies, deals, log, callbacks, running, calls, chk, prev,
                 change_events, recent>>

\* listener.run, from its call to the first await
run(listFault) ==
  /\ pc = "init"
  /\ running' = TRUE
  /\ LoopTest(TRUE, listFault)
  /\ UNCHANGED <<watched, companies, deals, log, callbacks, calls, chk, prev, change_events, recent>>

\* a timer that starts the next cycle whether or not the last one is over
wake_on_timer(listFault) ==
  /\ pc \in {"sleep", "cycle"}
  /\ LoopTest(running, listFault)
  /\ UNCHANGED <<watched, companies, deals, log, callbacks, running, calls, chk, prev,
                 change_events, recent>>

\* asyncio.sleep returns: the next loop test
wake(listFault) ==
  /\ pc = "sleep"
  /\ LoopTest(running, listFault)
  /\ UNCHANGED <<watched, companies, deals, log, callbacks, running, calls, chk, prev,
                 change_events, recent>>

\* a loop without the handler: the exception leaves _poll_cycle and run()
no_except(exc, rest) ==
  IF exc THEN "failed" ELSE IF rest = <<>> THEN "sleep" ELSE "cycle"

\* `except Exception: logger.exception(...)` of _poll_cycle: where run() is
\* after a check that raised (exc) or returned, with `rest` left to check
except_Exception(exc, rest) ==
  IF rest = <<>> THEN "sleep" ELSE "cycle"

\* a loop that drops from the registry a target whose check raised
check_unwatch_on_failure(companyOut, dealsOut, raisers, fault, keepLog) ==
  \E company_id \in {Head(todo)} :
  \E m \in {_check_company(Machine, company_id, companyOut, dealsOut,
                            callbacks, raisers, fault)} :
     /\ companies' = m.companies
     /\ deals' = m.deals
     /\ log' = m.log
     /\ calls' = m.calls
     /\ chk' = [id |-> company_id,
                fetch_raised |-> companyOut.raises,
                fresh |-> companyOut.company,
                stored |-> get_company(Machine, company_id),
                deals_raised |-> dealsOut.raises,
                api_deals |-> dealsOut.deals,
                stored_ids |-> get_deals_for_company(Machine, company_id),
                callbacks |-> callbacks,
                running |-> running,
                raisers |-> raisers,
                fault |-> IF m.ops >= fault THEN fault ELSE 0,
                raised |-> m.exc,
                prev |-> prev[company_id]]
     /\ prev' = [prev EXCEPT ![company_id] =
                   [checked |-> TRUE, raised |-> m.exc, fresh |-> companyOut.company,
                    log |-> IF keepLog THEN m.log ELSE <<>>]]
     /\ cyc' = [cyc EXCEPT !.failed = IF m.exc THEN @ \cup {company_id} ELSE @]
     /\ todo' = Tail(todo)
     /\ pc' = except_Exception(m.exc, Tail(todo))
     /\ watched' = IF m.exc THEN watched \ {company_id} ELSE watched
     /\ UNCHANGED <<callbacks, running, change_events, recent>>

\* one iteration of the `for company_id, company_name in watched` loop of
\* _poll_cycle: _check_company inside `try ... except Exception`
check(companyOut, dealsOut, raisers, fault, keepLog) ==
  \E company_id \in {Head(todo)} :
  \E m \in {_check_company(Machine, company_id, companyOut, dealsOut,
                            callbacks, raisers, fault)} :
     /\ companies' = m.companies
     /\ deals' = m.deals
     /\ log' = m.log
     /\ calls' = m.calls
     /\ chk' = [id |-> company_id,
                fetch_raised |-> companyOut.raises,
                fresh |-> companyOut.company,
                stored |-> get_company(Machine, company_id),
                deals_raised |-> dealsOut.raises,
                api_deals |-> dealsOut.deals,
                stored_ids |-> get_deals_for_company(Machine, company_id),
                callbacks |-> callbacks,
                running |-> running,
                raisers |-> raisers,
                fault |-> IF m.ops >= fault THEN fault ELSE 0,
                raised |-> m.exc,
                prev |-> prev[company_id]]
     /\ prev' = [prev EXCEPT ![company_id] =
                   [checked |-> TRUE, raised |-> m.exc, fresh |-> companyOut.company,
                    log |-> IF keepLog THEN m.log ELSE <<>>]]
     /\ cyc' = [cyc EXCEPT !.failed = IF m.exc THEN @ \cup {company_id} ELSE @]
     /\ todo' = Tail(todo)
     /\ pc' = except_Exception(m.exc, Tail(todo))
     /\ UNCHANGED <<watched, callbacks, running, change_events, recent>>

\* store.record_change as get_recent_changes sees it: a row is added with the
\* next key and the detected_at of its event
record_change_at(detected_at) ==
  /\ Len(change_events) < MaxEvents
  /\ change_events' =
       Append(change_events, [id |-> Len(change_events) + 1, detected_at |-> detected_at])
  /\ UNCHANGED <<watched, companies, deals, log, callbacks, running, pc, todo, calls, chk,
                 prev, cyc, recent>>

\* store.get_recent_changes
get_recent_changes(limit) ==
  /\ \E rows \in OrderByDetectedAtDesc(change_events) :
       recent' = [limit |-> limit, table |-> change_events, rows |-> Limit(rows, limit)]
  /\ UNCHANGED <<watched, companies, deals, log, callbacks, running, pc, todo, calls, chk,
                 prev, cyc, change_events>>

\* _poll_cycle past the read of the watch list: the check of the next target,
\* for every outcome of its provider calls, of its callbacks and of the store.
\* states[id] are the states the provider may report for company id,
\* dealOuts[id] the outcomes of the fetch of its deals, raiserSets the sets of
\* callbacks that may raise and faults the store calls that may; keepLog tells
\* whether prev keeps the rows a check appended
_poll_cycle(states, dealOuts, raiserSets, faults, keepLog) ==
  /\ pc = "cycle"
  /\ todo # <<>>
  /\ \E companyOut \in CompanyOutcomes(Head(todo), states[Head(todo)]),
        dealsOut \in dealOuts[Head(todo)],
        raisers \in raiserSets,
        fault \in faults :
       check(companyOut, dealsOut, raisers, fault, keepLog)

----------------------------------------------------------------------------
(* Specifications.  Each lets the listener run over the inputs its claims   *)
(* are about and keeps the other inputs fixed.                             *)

\* every state of the diffed fields
FieldStates == [id \in Ids |-> Company(id)]

\* the states that differ in status alone
StatusStates ==
  [id \in Ids |->
     {s \in Company(id) : /\ s.total_raised_usd = None
                          /\ s.employee_count = None
                          /\ s.last_financing_date = None}]

\* Spec: the poll loop over two watch targets
Next ==
  \/ \E id \in Ids : add_watched_company(id)
  \/ \E id \in Ids : remove_watched_company(id)
  \/ stop
  \/ run(FALSE)
  \/ wake(FALSE)
  \/ _poll_cycle(StatusStates, [id \in Ids |-> DealOutcomes(id, {})], {{}}, {0}, FALSE)

Spec == Init /\ [][Next]_vars

\* SpecFields: one watch target whose diffed fields take every value
NextFields ==
  \/ add_watched_company("C-1")
  \/ run(FALSE)
  \/ wake(FALSE)
  \/ _poll_cycle(FieldStates, [id \in Ids |-> NoDeals(id)], {{}}, {0}, FALSE)

SpecFields == Init /\ [][NextFields]_vars

\* the one state of a company whose optional fields are all unknown
PlainState ==
  [id \in Ids |-> {s \in StatusStates[id] : s.status = "active"}]

\* SpecDeals: two watch targets whose deal lists vary
NextDeals ==
  \/ \E id \in Ids : add_watched_company(id)
  \/ run(FALSE)
  \/ wake(FALSE)
  \/ _poll_cycle(PlainState, [id \in Ids |-> DealOutcomes(id, DealIds)], {{}}, {0}, FALSE)

SpecDeals == Init /\ [][NextDeals]_vars

\* the states that differ in status and total raised
CoarseStates ==
  [id \in Ids |->
     {s \in Company(id) : s.employee_count = None /\ s.last_financing_date = None}]

\* SpecFault: one watch target, one observer, and a store of which any one
\* call of a check may raise
NextFault ==
  \/ add_watched_company("C-1")
  \/ on_change("cb1")
  \/ run(FALSE)
  \/ wake(FALSE)
  \/ _poll_cycle(CoarseStates, [id \in Ids |-> NoDeals(id)], {{}},
                 0..MaxStoreCalls, TRUE)

SpecFault == Init /\ [][NextFault]_vars

\* SpecObservers: two watch targets, and observers any of which may raise
NextObservers ==
  \/ \E id \in Ids : add_watched_company(id)
  \/ \E cb \in Observers : on_change(cb)
  \/ run(FALSE)
  \/ wake(FALSE)
  \/ _poll_cycle(StatusStates, [id \in Ids |-> NoDeals(id)], SUBSET Observers,
                 {0}, FALSE)

SpecObservers == Init /\ [][NextObservers]_vars

\* SpecLive: two watch targets polled for ever: run() is never stopped, the
\* event loop resumes run() when its sleep is over, and every provider call
\* returns or raises
PollLive ==
  _poll_cycle(StatusStates, [id \in Ids |-> NoDeals(id)], {{}}, {0}, FALSE)

NextLive ==
  \/ \E id \in Ids : add_watched_company(id)
  \/ run(FALSE)
  \/ wake(FALSE)
  \/ PollLive

SpecLive ==
  /\ Init
  /\ [][NextLive]_vars
  /\ WF_vars(run(FALSE))
  /\ WF_vars(wake(FALSE))
  /\ WF_vars(PollLive)

\* SpecStop: the poll loop over two watch targets whose state never changes,
\* with its scheduling: the event loop resumes run() when its sleep is over,
\* and every provider call returns or raises
PollStop ==
  _poll_cycle(PlainState, [id \in Ids |-> NoDeals(id)], {{}}, {0}, FALSE)

NextStop ==
  \/ \E id \in Ids : add_watched_company(id)
  \/ \E id \in Ids : remove_watched_company(id)
  \/ stop
  \/ run(FALSE)
  \/ wake(FALSE)
  \/ PollStop

SpecStop ==
  /\ Init
  /\ [][NextStop]_vars
  /\ WF_vars(wake(FALSE))
  /\ WF_vars(PollStop)

\* SpecFatal: one watch target and a store of which any call may raise, the
\* read of the watch list included
NextFatal ==
  \/ add_watched_company("C-1")
  \/ \E listFault \in BOOLEAN : run(listFault)
  \/ \E listFault \in BOOLEAN : wake(listFault)
  \/ _poll_cycle(StatusStates, [id \in Ids |-> NoDeals(id)], {{}},
                 0..MaxStoreCalls, FALSE)

SpecFatal == Init /\ [][NextFatal]_vars

\* the deals a fetch of the deal list may return in SpecOrder
OrderDealIds == {"D-1", "D-2"}

\* the states whose optional fields are all known
KnownStates ==
  [id \in Ids |->
     {s \in Company(id) : /\ s.total_raised_usd # None
                          /\ s.employee_count # None
                          /\ s.last_financing_date # None}]

\* SpecOrder: one watch target whose every field and whose deal list vary
NextOrder ==
  \/ add_watched_company("C-1")
  \/ run(FALSE)
  \/ wake(FALSE)
  \/ _poll_cycle(KnownStates, [id \in Ids |-> DealOutcomes(id, OrderDealIds)], {{}}, {0}, FALSE)

SpecOrder == Init /\ [][NextOrder]_vars

\* the deals a fetch of the deal list may return in SpecSub
SubDealIds == {"D-1"}

\* SpecSub: two watch targets whose status varies and whose deal list is
\* empty or holds one deal
NextSub ==
  \/ \E id \in Ids : add_watched_company(id)
  \/ run(FALSE)
  \/ wake(FALSE)
  \/ _poll_cycle(StatusStates, [id \in Ids |-> DealOutcomes(id, SubDealIds)], {{}}, {0}, FALSE)

SpecSub == Init /\ [][NextSub]_vars

\* SpecChanges: the change_events table filled with events of any
\* detected_at and read with any limit
NextChanges ==
  \/ \E detected_at \in Times : record_change_at(detected_at)
  \/ \E limit \in Limits : get_recent_changes(limit)

SpecChanges == Init /\ [][NextChanges]_vars

----------------------------------------------------------------------------
(* Properties *)

\* the latest check was of a target whose fetch succeeded
Fetched == chk.id # None /\ ~chk.fetch_raised

\* the rows of the given change type the latest check appended
Emitted(t) == SelectType(log, t)

NoFieldDiff == \A t \in FieldDiffTypes : Emitted(t) = <<>>

\* C1 (first contact): a check whose fetch succeeds and that finds no stored
\* snapshot for its target emits exactly one `new` event and no field-diff
\* event, and leaves the fetched state as the stored snapshot of that id.
C1_FirstContact ==
  (Fetched /\ chk.stored = NoCompany) =>
    /\ Len(Emitted("new")) = 1
    /\ NoFieldDiff
    /\ get_company(Machine, chk.id) = chk.fresh

C1_Witness ==
  /\ Fetched
  /\ chk.stored = NoCompany
  /\ chk.fresh.status = "public"
  /\ chk.fresh.total_raised_usd = "5000000"
  /\ chk.fresh.last_financing_date = "2024-01-15"
  /\ Len(log) >= 1
  /\ log[1].change_type = "new"
  /\ log[1].entity_id = chk.id
  /\ "C-1" \in DOMAIN companies

\* the latest check fetched the deal list of its target
FetchedDeals == Fetched /\ ~chk.deals_raised

ApiIds == {chk.api_deals[i].pitchbook_id : i \in 1..Len(chk.api_deals)}

NewIds == ApiIds \ chk.stored_ids

DealEvents(id) ==
  SelectSeq(log, LAMBDA e : e.change_type = "new_deal" /\ e.entity_id = id)

C2_WitnessSeveral ==
  /\ FetchedDeals
  /\ Cardinality(NewIds) = 2
  /\ Len(Emitted("new_deal")) = 2

\* the targets of the latest cycle's list that are still to be checked
Unchecked ==
  SubSeq(cyc.list, Len(cyc.list) - Len(todo) + 1, Len(cyc.list))

\* what a check of a target whose status alone varies and whose deal list is
\* empty emits when nothing disturbs it
StatusEvents ==
  IF chk.stored = NoCompany
    THEN <<ChangeEvent("company", chk.id, "new", None, None)>>
  ELSE IF chk.stored.status # chk.fresh.status
    THEN <<ChangeEvent("company", chk.id, "status_change",
                       chk.stored.status, chk.fresh.status)>>
  ELSE <<>>

\* C3 (entity isolation): whichever targets of a cycle raise in their fetch,
\* the cycle goes on to the targets left in its list and ends only when all
\* were checked, run() does not fail, a check that raised in its fetch wrote
\* nothing, and a check whose fetch succeeded emitted the events and wrote the
\* snapshot its own stored and fetched states call for.
C3_EntityIsolation ==
  /\ pc # "failed"
  /\ Len(todo) <= Len(cyc.list)
  /\ todo = Unchecked
  /\ pc = "cycle" => todo # <<>>
  /\ pc = "sleep" => todo = <<>>
  /\ cyc.failed \subseteq Range(cyc.list) \ Range(todo)
  /\ (chk.id # None /\ chk.fetch_raised) =>
       /\ log = <<>>
       /\ get_company(Machine, chk.id) = chk.stored
  /\ Fetched =>
       /\ log = StatusEvents
       /\ get_company(Machine, chk.id) = chk.fresh

\* the first target of a two-target cycle raised in its fetch and the second
\* was then checked and emitted its event
C3_Witness ==
  /\ pc = "sleep"
  /\ Len(cyc.list) = 2
  /\ cyc.failed = {cyc.list[1]}
  /\ chk.id = cyc.list[2]
  /\ Fetched
  /\ prev[cyc.list[1]].checked
  /\ prev[cyc.list[1]].fresh = NoCompany
  /\ Len(log) = 1
  /\ log[1].change_type = "status_change"

\* the latest check found a stored snapshot to diff the fetched state against
Diffed == Fetched /\ chk.stored # NoCompany

\* the event each block of the diff is to emit for the snapshot the latest
\* check found and the state it fetched
ExpectedStatus ==
  IF chk.stored.status # chk.fresh.status
    THEN <<ChangeEvent("company", chk.id, "status_change",
                       chk.stored.status, chk.fresh.status)>>
    ELSE <<>>

ExpectedFunding ==
  IF /\ chk.stored.total_raised_usd # None
     /\ chk.fresh.total_raised_usd # None
     /\ chk.stored.total_raised_usd # chk.fresh.total_raised_usd
    THEN <<ChangeEvent("company", chk.id, "funding_update",
                       chk.stored.total_raised_usd, chk.fresh.total_raised_usd)>>
    ELSE <<>>

ExpectedEmployees ==
  IF /\ chk.stored.employee_count # None
     /\ chk.fresh.employee_count # None
     /\ chk.stored.employee_count # chk.fresh.employee_count
    THEN <<ChangeEvent("company", chk.id, "employee_count_change",
                       chk.stored.employee_count, chk.fresh.employee_count)>>
    ELSE <<>>

ExpectedFinancing ==
  IF /\ chk.fresh.last_financing_date # None
     /\ chk.fresh.last_financing_date # chk.stored.last_financing_date
    THEN <<ChangeEvent("company", chk.id, "new_financing",
                       None, chk.fresh.last_financing_date)>>
    ELSE <<>>

\* the transitions the latest check had to report for its target
Detected ==
  IF chk.stored = NoCompany
    THEN <<ChangeEvent("company", chk.id, "new", None, None)>>
    ELSE ExpectedStatus \o ExpectedFunding \o ExpectedEmployees \o ExpectedFinancing

\* C4 (exactly-once reporting): also when a store call of a check may fail, a
\* check that ends without raising has recorded each transition it detected
\* exactly once, and no check records an event that the previous check of the
\* same target has already recorded.
C4_ExactlyOnce ==
  /\ (Fetched /\ ~chk.raised) => log = Detected
  /\ \A e \in Range(log) : e \notin Range(chk.prev.log)

\* C5 (idempotent no-op): a check that succeeds right after a successful check
\* of the same target in which the provider returned the same state emits no
\* field-diff event and no `new` event.
C5_IdempotentNoOp ==
  (/\ Fetched
   /\ ~chk.raised
   /\ chk.prev.checked
   /\ ~chk.prev.raised
   /\ chk.prev.fresh = chk.fresh) =>
    /\ NoFieldDiff
    /\ Emitted("new") = <<>>

C5_Witness ==
  /\ Fetched
  /\ ~chk.raised
  /\ chk.prev.checked
  /\ ~chk.prev.raised
  /\ chk.prev.fresh = chk.fresh
  /\ chk.fresh.status = "public"
  /\ chk.fresh.total_raised_usd = "8000000"
  /\ chk.fresh.employee_count = "12"
  /\ chk.fresh.last_financing_date = "2024-06-30"
  /\ log = <<>>

\* every event delivered to every callback, event by event, in the order of
\* registration
RECURSIVE Deliveries(_, _)
Deliveries(events, cbs) ==
  IF events = <<>> THEN <<>>
  ELSE [i \in 1..Len(cbs) |-> [cb |-> cbs[i], event |-> Head(events)]]
         \o Deliveries(Tail(events), cbs)

\* C6 (observer isolation): whichever of the registered observers raise, every
\* event a check emits is in the log and is delivered to every registered
\* observer, the check does not raise, and the cycle goes on over the targets
\* left and run() does not fail.
C6_ObserverIsolation ==
  /\ pc # "failed"
  /\ todo = Unchecked
  /\ Fetched =>
       /\ ~chk.raised
       /\ log = StatusEvents
       /\ calls = Deliveries(log, chk.callbacks)

\* the first of two observers raised; the second got the event, the event is
\* logged and the cycle goes on with the target left
C6_Witness ==
  /\ Fetched
  /\ chk.callbacks = <<"cb1", "cb2">>
  /\ chk.raisers = {"cb1"}
  /\ Len(log) = 1
  /\ Len(calls) = 2
  /\ calls[2] = [cb |-> "cb2", event |-> log[1]]
  /\ pc = "cycle"
  /\ todo # <<>>

\* C7 (durability before notification): every event delivered to an observer
\* is in the log, and a detected event that is not in the log, because its
\* append or an earlier store call failed, was delivered to no observer.
C7_DurabilityFirst ==
  /\ \A i \in 1..Len(calls) : calls[i].event \in Range(log)
  /\ Fetched =>
       \A e \in Range(Detected) \ Range(log) :
         \A i \in 1..Len(calls) : calls[i].event # e

\* the append of the second event of a check failed: the observer got the
\* first event only
C7_Witness ==
  /\ Fetched
  /\ chk.raised
  /\ chk.fault = 3
  /\ chk.callbacks # <<>>
  /\ Len(Detected) = 2
  /\ Len(log) = 1
  /\ calls = Deliveries(log, chk.callbacks)

\* the fetched state differs from the snapshot in no diffed field but status
OnlyStatusDiffers ==
  /\ chk.stored.total_raised_usd = chk.fresh.total_raised_usd
  /\ chk.stored.employee_count = chk.fresh.employee_count
  /\ chk.stored.last_financing_date = chk.fresh.last_financing_date

\* C8 (status transition): a diff emits one `status_change` event carrying the
\* stored and the fetched status when the two differ and none when they are
\* equal, and no other field-diff event when no other diffed field changed.
C8_StatusTransition ==
  Diffed =>
    /\ Emitted("status_change") = ExpectedStatus
    /\ OnlyStatusDiffers =>
         \A t \in FieldDiffTypes \ {"status_change"} : Emitted(t) = <<>>

C8_Witness ==
  /\ Diffed
  /\ chk.stored.status = "active"
  /\ chk.fresh.status = "public"
  /\ OnlyStatusDiffers
  /\ chk.fresh.total_raised_usd = "5000000"
  /\ log = <<ChangeEvent("company", "C-1", "status_change", "active", "public")>>

\* C9 (numeric metrics): a diff emits `funding_update`, and likewise
\* `employee_count_change`, exactly when the stored and the fetched value are
\* both non-null and differ; the event carries the two values.
C9_NumericMetrics ==
  Diffed =>
    /\ Emitted("funding_update") = ExpectedFunding
    /\ Emitted("employee_count_change") = ExpectedEmployees

\* null-to-value for the total raised, value-to-value for the employee count
C9_Witness ==
  /\ Diffed
  /\ chk.stored.total_raised_usd = None
  /\ chk.fresh.total_raised_usd = "5000000"
  /\ Emitted("funding_update") = <<>>
  /\ chk.stored.employee_count = "10"
  /\ chk.fresh.employee_count = "12"
  /\ Len(Emitted("employee_count_change")) = 1

\* value-to-null for the total raised
C9_WitnessToNull ==
  /\ Diffed
  /\ chk.stored.total_raised_usd = "5000000"
  /\ chk.fresh.total_raised_usd = None
  /\ Emitted("funding_update") = <<>>

\* C10 (new financing marker): a diff emits one `new_financing` event exactly
\* when the fetched last financing date is set and differs from the stored
\* one, null-to-date included; date-to-null emits none.
C10_NewFinancing ==
  Diffed => Emitted("new_financing") = ExpectedFinancing

\* null-to-date
C10_Witness ==
  /\ Diffed
  /\ chk.stored.last_financing_date = None
  /\ chk.fresh.last_financing_date = "2024-01-15"
  /\ Len(Emitted("new_financing")) = 1

\* date-to-null
C10_WitnessToNull ==
  /\ Diffed
  /\ chk.stored.last_financing_date = "2024-01-15"
  /\ chk.fresh.last_financing_date = None
  /\ Emitted("new_financing") = <<>>

\* the step is a check: _poll_cycle moves on to the next target of its list
CheckStep == pc = "cycle" /\ todo # <<>> /\ todo' = Tail(todo)

\* C11 (no re-emission of known items): a check emits no `new_deal` event for
\* a deal id that the store held before the check, whichever watch target the
\* provider returns the deal for.
C11_NoReEmission ==
  [][CheckStep =>
       \A d \in DOMAIN deals :
         SelectSeq(log', LAMBDA e : e.change_type = "new_deal" /\ e.entity_id = d) = <<>>]_vars

\* C12 (unconditional snapshot refresh): after a check that found a stored
\* snapshot and whose fetch succeeded, the stored snapshot is the fetched
\* state, whether or not the diff emitted an event.
C12_SnapshotRefresh ==
  Diffed => get_company(Machine, chk.id) = chk.fresh

\* a silent drift: the total raised went from unknown to known, which no event
\* reports, and the snapshot took the new value
C12_Witness ==
  /\ Diffed
  /\ chk.stored.total_raised_usd = None
  /\ chk.fresh.total_raised_usd = "5000000"
  /\ log = <<>>
  /\ companies["C-1"].total_raised_usd = "5000000"

\* C13 (ordering inside a check): the snapshot is read first, so a check whose
\* read fails has emitted and written nothing; and the snapshot is written
\* before the events of the diff are emitted, so a check that has appended an
\* event or notified an observer has already stored the fetched state.
C13_WriteBeforeEmit ==
  /\ (Fetched /\ chk.fault = 1) =>
       /\ log = <<>>
       /\ calls = <<>>
       /\ get_company(Machine, chk.id) = chk.stored
  /\ (Fetched /\ (log # <<>> \/ calls # <<>>)) =>
       get_company(Machine, chk.id) = chk.fresh

\* C14 (eventual consistency): if from some moment on a target is watched and
\* every check of it fetches the same state s without raising, then from some
\* moment on the stored snapshot of the target is s.
C14_EventualConsistency ==
  \A id \in Ids : \A s \in StatusStates[id] :
    <>[](/\ id \in watched
         /\ chk.id = id => (Fetched /\ chk.fresh = s))
      => <>[](get_company(Machine, id) = s)

\* a target whose fetch raised in one cycle is fetched in the next, and its
\* snapshot then takes the state the provider moved to
C14_Witness ==
  /\ Diffed
  /\ chk.prev.checked
  /\ chk.prev.raised
  /\ chk.stored.status = "active"
  /\ chk.fresh.status = "public"
  /\ get_company(Machine, chk.id) = chk.fresh

\* C15 (stop is not preemptive): the loop sleeps or exits only when every
\* target of the cycle's list was checked, and a step taken in a cycle after
\* stop() either checks the next target or leaves the cycle as it is.
C15_StopNotPreemptive ==
  /\ [](pc \in {"sleep", "done"} => todo = <<>>)
  /\ [](todo = Unchecked)
  /\ [][(pc = "cycle" /\ ~running) =>
          /\ pc' \in {"cycle", "sleep"}
          /\ CheckStep \/ (todo' = todo /\ pc' = pc)]_vars

\* stop() came before the second target of a cycle was checked; the target was
\* checked all the same and its event emitted, and the loop then exited
C15_Witness ==
  /\ pc = "done"
  /\ Len(cyc.list) = 2
  /\ chk.id = cyc.list[2]
  /\ ~chk.running
  /\ Fetched
  /\ Len(log) = 1

\* run() has begun and stop() was called since
Stopped == pc # "init" /\ ~running

\* C16 (stop terminates the loop): once stop() was called after run() began,
\* the loop test that follows the cycle in flight starts no new cycle (the
\* watch list is not read again) and leaves the loop, run() eventually
\* returns, and it stays returned.
C16_StopTerminates ==
  /\ [][(Stopped /\ pc = "sleep") =>
          \/ pc' = "done" /\ UNCHANGED <<todo, cyc>>
          \/ UNCHANGED <<pc, todo, cyc>>]_vars
  /\ [][Stopped => Stopped']_vars
  /\ Stopped ~> (pc = "done")
  /\ [][pc = "done" => pc' = "done"]_vars

\* run() returned after a cycle that stop() found in flight
C16_Witness ==
  /\ pc = "done"
  /\ ~running
  /\ Len(cyc.list) = 2
  /\ ~chk.running
  /\ chk.id = cyc.list[2]

\* C17 (no overlapping cycles): the watch list of a cycle is loaded only when
\* the cycle before it has checked its last target, a cycle is in flight
\* exactly while targets are left, and a check of a target whose previous
\* check fetched a state finds exactly that state stored.
C17_NoOverlap ==
  /\ [][(todo' # todo /\ ~CheckStep) =>
          (todo = <<>> /\ pc \in {"init", "sleep"})]_vars
  /\ [](pc = "cycle" <=> todo # <<>>)
  /\ []((chk.id # None /\ chk.prev.fresh # NoCompany) =>
          chk.stored = chk.prev.fresh)

\* a target of a two-target list whose previous check stored status public
\* is checked again and that snapshot is the one diffed
C17_Witness ==
  /\ Len(cyc.list) = 2
  /\ Diffed
  /\ chk.prev.fresh # NoCompany
  /\ chk.prev.fresh.status = "public"
  /\ chk.stored.status = "public"
  /\ chk.fresh.status = "active"
  /\ Len(log) = 1

\* C18 (fatal store errors propagate): a store call that raises inside a check
\* (the read or the write of the snapshot, the write of an item, the append of
\* an event) escapes _poll_cycle and ends run().
C18_StoreErrorsPropagate ==
  chk.fault # 0 => pc = "failed"

\* C19 (a failed fetch leaves the state untouched): a check whose fetch of
\* the company raises appends no event, notifies nobody and leaves the
\* snapshots and the stored deals as they were; its target is not in the rest
\* of the cycle's list, and the list of the next cycle holds every watched
\* target once, the failed ones included.
C19_FailedFetch ==
  /\ [][(CheckStep /\ chk'.fetch_raised) =>
          /\ log' = <<>>
          /\ calls' = <<>>
          /\ companies' = companies
          /\ deals' = deals
          /\ Head(todo) \notin Range(todo')]_vars
  /\ [][(todo' # todo /\ ~CheckStep) =>
          (Range(todo') = watched /\ NoRepeat(todo'))]_vars

\* the fetch of a target with a snapshot and a stored deal raised, one cycle
\* after a check of it that succeeded
C19_Witness ==
  /\ chk.id = "C-1"
  /\ chk.fetch_raised
  /\ chk.prev.checked
  /\ ~chk.prev.raised
  /\ chk.stored # NoCompany
  /\ chk.stored_ids # {}
  /\ log = <<>>
  /\ "C-1" \in DOMAIN companies

\* C20 (empty watch list): while the watch registry is empty and run() is at
\* a cycle boundary, no step checks a target (no provider call is made),
\* writes a snapshot or a deal, appends an event or notifies an observer: the
\* cycle returns to the sleep with nothing to check.
C20_EmptyWatchList ==
  /\ [][(watched = {} /\ pc \in {"init", "sleep"}) =>
          /\ pc' \in {pc, "sleep", "done"}
          /\ todo' = <<>>
          /\ UNCHANGED <<companies, deals, log, calls, chk, prev>>]_vars
  /\ [](pc = "cycle" => cyc.list # <<>>)

\* a cycle over an empty registry, after the one target of an earlier cycle
\* was removed: the loop sleeps and the store keeps what it held
C20_Witness ==
  /\ pc = "sleep"
  /\ running
  /\ watched = {}
  /\ cyc.list = <<>>
  /\ chk.id # None
  /\ DOMAIN companies # {}

\* C21 (observer ordering): on_change appends to the list of observers and
\* nothing else changes the list; observers are invoked only inside a check,
\* and when the check is over the n observers registered have each been
\* invoked once for each event it appended, event after event, in the order
\* of their registration.
C21_ObserverOrder ==
  /\ [][callbacks' # callbacks =>
          \E cb \in Observers : callbacks' = Append(callbacks, cb)]_vars
  /\ [][calls' # calls => CheckStep]_vars
  /\ [](LET n == Len(chk.callbacks)
        IN /\ Len(calls) = n * Len(log)
           /\ \A k \in 1..Len(log) : \A i \in 1..n :
                calls[(k - 1) * n + i] = [cb |-> chk.callbacks[i], event |-> log[k]])

\* cb2 was registered before cb1 and got the event before cb1
C21_Witness ==
  /\ Fetched
  /\ callbacks = <<"cb2", "cb1">>
  /\ chk.callbacks = callbacks
  /\ Len(log) = 1
  /\ calls = <<[cb |-> "cb2", event |-> log[1]], [cb |-> "cb1", event |-> log[1]]>>

\* a step of the listener: of run(), of its loop or of a check, of stop() or
\* of on_change()
ListenerStep ==
  \/ pc' # pc
  \/ todo' # todo
  \/ cyc' # cyc
  \/ chk' # chk
  \/ running' # running
  \/ callbacks' # callbacks
  \/ log' # log
  \/ companies' # companies
  \/ deals' # deals

\* C22 (the listener only reads the watch registry): no step of the listener
\* changes the registry, and whatever failed before, the list a cycle loads
\* is the whole registry.
C22_RegistryReadOnly ==
  /\ [][ListenerStep => watched' = watched]_vars
  /\ [][(todo' # todo /\ ~CheckStep) => Range(todo') = watched]_vars
  /\ [][CheckStep => Head(todo) \in Range(cyc.list)]_vars

\* a target whose fetch raised in two cycles in a row is still watched and
\* was polled in the second
C22_Witness ==
  /\ chk.id # None
  /\ chk.fetch_raised
  /\ chk.prev.checked
  /\ chk.prev.raised
  /\ chk.prev.fresh = NoCompany
  /\ chk.id \in watched
  /\ chk.id \in Range(cyc.list)
  /\ chk.id \in cyc.failed

\* C23 (items are write-once): no step changes or removes a row of the deals
\* table, its parent company included: the listener writes a deal only under
\* an id the table does not hold yet.
C23_ItemsWriteOnce ==
  [][\A d \in DOMAIN deals : d \in DOMAIN deals' /\ deals'[d] = deals[d]]_vars

C25_RecentChanges ==
  LET rows == recent.rows
      size == Len(recent.table)
  IN /\ Len(rows) = IF recent.limit < size THEN recent.limit ELSE size
     /\ Range(rows) \subseteq Range(recent.table)
     /\ NoRepeat(rows)
     /\ \A out \in Range(recent.table) \ Range(rows) : \A r \in Range(rows) :
          out.detected_at <= r.detected_at
     /\ \A i \in 1..(Len(rows) - 1) : rows[i].detected_at >= rows[i + 1].detected_at

\* three events appended oldest last, two asked for: the newest comes first
\* and the oldest is left out
C25_Witness ==
  /\ Len(recent.table) = 3
  /\ recent.table[1].detected_at = 2
  /\ recent.table[2].detected_at = 3
  /\ recent.table[3].detected_at = 1
  /\ recent.limit = 2
  /\ recent.rows = <<recent.table[2], recent.table[1]>>

\* the place of an event of the given change type in the events of one check
Rank(change_type) ==
  CASE change_type = "new" -> 0
    [] change_type = "status_change" -> 1
    [] change_type = "funding_update" -> 2
    [] change_type = "employee_count_change" -> 3
    [] change_type = "new_financing" -> 4
    [] change_type = "new_deal" -> 5
    [] OTHER -> 6

\* C26 (per-entity event order): of any two events of one check the earlier is
\* of the earlier kind in the order new, status_change, funding_update,
\* employee_count_change, new_financing, new_deal, or both are new_deal events;
\* and every event that is not a new_deal event is about the checked target.
C26_EventOrder ==
  /\ \A i \in 1..Len(log) : \A j \in (i + 1)..Len(log) :
       \/ Rank(log[i].change_type) < Rank(log[j].change_type)
       \/ log[i].change_type = "new_deal" /\ log[j].change_type = "new_deal"
  /\ \A i \in 1..Len(log) :
       /\ Rank(log[i].change_type) <= 5
       /\ log[i].change_type # "new_deal" => log[i].entity_id = chk.id

\* every field differs and two deals are new
C26_Witness ==
  /\ Diffed
  /\ [i \in 1..Len(log) |-> log[i].change_type] =
       <<"status_change", "funding_update", "employee_count_change", "new_financing",
         "new_deal", "new_deal">>

\* first contact with a target that has a deal
C26_WitnessNew ==
  /\ Fetched
  /\ [i \in 1..Len(log) |-> log[i].change_type] = <<"new", "new_deal">>

\* the previous check of the target of the latest check fetched the target and
\* raised in the fetch of its deal list (no store call and no observer raises)
PrevDealsRaised ==
  chk.prev.checked /\ chk.prev.raised /\ chk.prev.fresh # NoCompany

\* C27 (sub-collection failure): a check whose fetch of the target succeeds
\* and whose fetch of the deal list raises keeps the snapshot it wrote and the
\* `new` or status_change event it emitted, emits no new_deal event and leaves
\* the stored deals as they were; the cycle goes on to the targets left in
\* its list and run() does not fail; and a later check of the target that
\* fetches the deal list emits one new_deal event for every deal not yet
\* stored for the target and stores it.
C27_DealFetchFailure ==
  /\ []((Fetched /\ chk.deals_raised) =>
          /\ chk.raised
          /\ get_company(Machine, chk.id) = chk.fresh
          /\ log = StatusEvents
          /\ Emitted("new_deal") = <<>>
          /\ get_deals_for_company(Machine, chk.id) = chk.stored_ids
          /\ pc # "failed"
          /\ todo = Unchecked
          /\ (pc = "sleep" <=> todo = <<>>))
  /\ [][(CheckStep /\ chk'.deals_raised) => deals' = deals]_vars
  /\ []((FetchedDeals /\ PrevDealsRaised) =>
          \A d \in NewIds :
            /\ Len(DealEvents(d)) = 1
            /\ d \in DOMAIN deals /\ deals[d] = Deal(d, chk.id))

\* the first target of a two-target cycle was fetched, its status had changed
\* and the fetch of its deals raised; the second target is still to be checked
C27_Witness ==
  /\ pc = "cycle"
  /\ Len(cyc.list) = 2
  /\ Len(todo) = 1
  /\ chk.id = cyc.list[1]
  /\ Fetched
  /\ chk.deals_raised
  /\ chk.stored # NoCompany
  /\ chk.stored.status # chk.fresh.status
  /\ Len(log) = 1

\* the deal a check could not fetch is reported by the next check of the target
C27_WitnessLater ==
  /\ FetchedDeals
  /\ PrevDealsRaised
  /\ NewIds = {"D-1"}
  /\ Len(DealEvents("D-1")) = 1

\* C28 (at most one `new` event per entity): no step deletes a stored
\* snapshot, also not the un-watching of its target; a check emits a `new`
\* event only for its own target, at most one, only when no snapshot is stored
\* under the target's id when the check starts, and one is stored under it
\* when the check ends.  So the checks of a target emit at most one `new`
\* event over any sequence of cycles.
C28_NewAtMostOnce ==
  /\ [][\A id \in DOMAIN companies : id \in DOMAIN companies']_vars
  /\ [][CheckStep =>
          /\ Len(SelectType(log', "new")) <= 1
          /\ \A e \in Range(SelectType(log', "new")) :
               /\ e.entity_id = Head(todo)
               /\ e.entity_id \notin DOMAIN companies
               /\ e.entity_id \in DOMAIN companies']_vars
  /\ []((chk.id # None /\ chk.stored # NoCompany) => Emitted("new") = <<>>)

\* a later check of a target finds the snapshot of its first contact and
\* emits no `new` event, though the fetched state differs from the snapshot
C28_Witness ==
  /\ Fetched
  /\ chk.prev.checked
  /\ chk.stored # NoCompany
  /\ chk.stored # chk.fresh
  /\ Emitted("new") = <<>>

\* a target checked before was not in the list of the latest cycle and is
\* watched again: its snapshot is still stored
C28_WitnessRewatched ==
  /\ pc = "sleep"
  /\ cyc.list = <<"C-2">>
  /\ prev["C-1"].checked
  /\ "C-1" \in watched
  /\ "C-1" \in DOMAIN companies

\* C29 (watch list fixed per cycle): the list of a cycle is read from the
\* registry in the step that starts the cycle and holds each target of the
\* registry once; the targets still to be checked are always the rest of that
\* list, so the cycle checks the targets of the list one by one, each once,
\* and ends only when none is left; a step that adds a target to the registry
\* or removes one leaves the list and the rest of the cycle in flight as they
\* are; and a check writes the snapshot of the target it fetched, be the
\* target in the registry or not.
C29_ListFixedPerCycle ==
  /\ [](/\ NoRepeat(cyc.list)
        /\ Len(todo) <= Len(cyc.list)
        /\ todo = Unchecked
        /\ pc = "cycle" => todo # <<>>
        /\ pc = "sleep" => todo = <<>>)
  /\ [][(cyc'.list # cyc.list \/ (todo' # todo /\ ~CheckStep)) =>
          /\ pc \in {"init", "sleep"}
          /\ watched' = watched
          /\ Range(cyc'.list) = watched
          /\ todo' = cyc'.list]_vars
  /\ [][watched' # watched => (todo' = todo /\ cyc' = cyc /\ pc' = pc /\ chk' = chk)]_vars
  /\ [][CheckStep =>
          /\ chk'.id = Head(todo)
          /\ cyc'.list = cyc.list
          /\ ~chk'.fetch_raised =>
               /\ Head(todo) \in DOMAIN companies'
               /\ companies'[Head(todo)] = chk'.fresh]_vars

\* the second target of a two-target cycle was removed from the registry and
\* is still to be checked
C29_Witness ==
  /\ pc = "cycle"
  /\ Len(cyc.list) = 2
  /\ todo = <<cyc.list[2]>>
  /\ cyc.list[2] \notin watched

\* a target removed from the registry while the cycle was in flight was
\* checked last in the cycle and its snapshot written
C29_WitnessRemoved ==
  /\ pc = "sleep"
  /\ Len(cyc.list) = 2
  /\ chk.id = cyc.list[2]
  /\ Fetched
  /\ chk.stored # chk.fresh
  /\ companies[chk.id] = chk.fresh
  /\ watched = {cyc.list[1]}

\* a target added while the cycle was in flight is not in the list of the cycle
C29_WitnessAdded ==
  /\ pc = "cycle"
  /\ cyc.list = <<"C-1">>
  /\ watched = {"C-1", "C-2"}
  /\ ~prev["C-2"].checked

\* the target added during the previous cycle is in the list of the next one
C29_WitnessNext ==
  /\ pc = "cycle"
  /\ Len(cyc.list) = 2
  /\ prev["C-1"].checked
  /\ ~prev["C-2"].checked
  /\ todo = <<"C-2">>

\* C30 (run() sets the flag on entry): before run() begins the flag is unset
\* and a stop() changes nothing; the step in which run() begins sets the flag
\* and starts the first cycle by reading the watch list, whatever came
\* before; and the loop is left only from its sleep and only with the flag
\* unset, that is after a stop() that came after run() began.
C30_RunSetsRunning ==
  /\ [](pc = "init" => ~running)
  /\ [][(pc = "init" /\ stop) => UNCHANGED vars]_vars
  /\ [][(pc = "init" /\ pc' # "init") =>
          /\ running'
          /\ pc' \in {"cycle", "sleep"}
          /\ todo' = cyc'.list
          /\ Range(cyc'.list) = watched]_vars
  /\ [][(pc # "done" /\ pc' = "done") => (pc = "sleep" /\ ~running)]_vars
  /\ [][(pc = "sleep" /\ running) => pc' \in {"sleep", "cycle"}]_vars
  /\ [][running' # running => (IF pc = "init" THEN running' ELSE ~running')]_vars

\* run() has begun: the flag is set and the first cycle has its list, of
\* which no target is checked yet
C30_Witness ==
  /\ pc = "cycle"
  /\ running
  /\ chk.id = None
  /\ todo = cyc.list
  /\ Len(cyc.list) = 2

\* the loop polls on: a target checked in an earlier cycle is about to be
\* checked again with the flag still set
C30_WitnessPolling ==
  /\ pc = "cycle"
  /\ running
  /\ todo = cyc.list
  /\ \A i \in 1..Len(todo) : prev[todo[i]].checked

====
